---- MODULE Spec2Model ----
(***************************************************************************)
(* dadafits: ring buffer pages -> FITS rows.                               *)
(*                                                                         *)
(*   Spec             the driver, main() of main.c, from option handling   *)
(*                    to process exit, with SIGTERM delivery               *)
(*   SpecDeinterleave the loop nest of deinterleave() of manipulate.c      *)
(*   SpecPack         the passes of pack_sc34() of manipulate.c            *)
(***************************************************************************)
EXTENDS Integers, Sequences, FiniteSets, TLC

\* ------------------------------------------------------------------------
\* Program constants (dadafits_internal.h, used throughout main.c and
\* manipulate.c)
\* ------------------------------------------------------------------------
NCHANNELS == 1536
NCHANNELS_LOW == 384
NTIMES_LOW == 500
NPOLS == 4
NSUBBANDS == 32
FREQS_PER_SUBBAND == 48
SC3_NTIMES == 12500
SC4_NTIMES == 25000
SUBBAND_UNSET == 9999
\* one original packet holds 500 time samples (manipulate.c:157)
PACKET_NTIMES == 500
\* and 4 channels (manipulate.c:152, 158)
PACKET_NCHANNELS == 4

\* ------------------------------------------------------------------------
\* Bounds of the model
\* ------------------------------------------------------------------------
\* stores of deinterleave() followed from each starting position
MaxStores == 40
\* bytes of pack_sc34() followed from each starting position
MaxPackBytes == 100
\* pages the transport can deliver in one run
MaxPages == 3
\* rows of the synthesized beam table
MaxSynBeams == 2
\* memcpy calls of the beam synthesis followed from each starting position
MaxCopies == 10

\* ------------------------------------------------------------------------
\* Inputs of a run
\* ------------------------------------------------------------------------
ScienceCases == {2, 3, 4, 5}
ScienceModes == {-1, 0, 1, 2, 3, 4}
PaddedSizes == {SC3_NTIMES - 1, SC3_NTIMES, SC4_NTIMES - 1, SC4_NTIMES}
\* entries a synthesized beam table can hold
TableValues == {0, 1, 9, 12, 13, SUBBAND_UNSET}
\* tables: every entry 0, except one entry (sb, band) holding any value
BandSamples == {0, NSUBBANDS - 1}
Tables(n) ==
    { [s \in 0..(n - 1) |-> [b \in 0..(NSUBBANDS - 1) |->
          IF s = bs /\ b = bb THEN v ELSE 0]] :
      bs \in 0..(n - 1), bb \in BandSamples, v \in TableValues }

VARIABLES
    \* ---- main.c: configuration, header and option values
    science_case, science_mode, padded_size,
    table_name,                  \* TRUE iff option -S was given
    synthesized_beam_count, synthesized_beam_selected, synthesized_beam_table,
    \* ---- main.c: locals and globals of main()
    make_synthesized_beams, ntabs, ntimes, nchannels, npols, sequence_length,
    transposed, synthesized,     \* "null" | "allocated"
    quit,
    page,                        \* the pointer `page` is not NULL
    page_count, tab, sb,
    pc,                          \* position in main()
    \* ---- collaborators
    fits,                        \* file writer: "uninit" | "open" | "closed"
    rows,                        \* the write_fits calls so far
    handler,                     \* SIGTERM disposition: "default" | "fits_error_and_exit"
    remaining, eod, acquired,    \* ring buffer: pages left, end-of-data, pages handed out
    held,                        \* ring buffer: a page is handed out and not yet
                                 \* marked cleared
    exit_status, exit_reason,
    \* ---- deinterleave(): loop counters and the last store
    d_case, d_mode, d_pc, d_tab, d_channel_offset, d_sequence_number,
    d_tn, d_cn, d_pn,
    d_packet,                    \* offset of the pointer `packet` into the page
    d_store,                     \* the last store into the transposed buffer
    d_steps,                     \* stores made since the window opened
    \* ---- pack_sc34(): loop counters and the last accesses
    p_grid,                      \* which input grid `downsampled` holds
    p_pc, p_dc, p_dt,
    p_stat,                      \* the last pass over one channel (lines 23-64)
    p_written,                   \* indices of fits_offset / fits_scale written
                                 \* since the window opened
    p_byte,                      \* the last byte packed (lines 72-92)
    p_reads,                     \* indices of `downsampled` read by the third
                                 \* pass since the window opened
    p_steps,                     \* bytes packed since the window opened
    \* ---- the copy loops of the beam synthesis (main.c:468-494)
    syn_case, syn_mode,          \* the science case and mode main() runs in
    syn_entries,                 \* synthesized_beam_table[sb]
    syn_pc, syn_band, syn_tn, syn_pn,
    syn_count,                   \* memcpy calls made for this beam so far
    syn_copy,                    \* the last memcpy
    syn_steps                    \* memcpy calls since the window opened

cfgvars == <<science_case, science_mode, padded_size, table_name,
             synthesized_beam_count, synthesized_beam_selected,
             synthesized_beam_table>>
geovars == <<make_synthesized_beams, ntabs, ntimes, nchannels, npols,
             sequence_length>>
bufvars == <<transposed, synthesized>>
loopvars == <<quit, page, page_count, tab, sb>>
ringvars == <<remaining, eod, acquired, held>>
exitvars == <<exit_status, exit_reason>>
dvars == <<d_case, d_mode, d_pc, d_tab, d_channel_offset, d_sequence_number,
           d_tn, d_cn, d_pn, d_packet, d_store, d_steps>>
mainvars == <<cfgvars, geovars, bufvars, loopvars, ringvars, exitvars,
              pc, fits, rows, handler>>
pvars == <<p_grid, p_pc, p_dc, p_dt, p_stat, p_written, p_byte, p_reads, p_steps>>
synvars == <<syn_case, syn_mode, syn_entries, syn_pc, syn_band, syn_tn, syn_pn,
             syn_count, syn_copy, syn_steps>>
vars == <<mainvars, dvars, pvars, synvars>>

\* ------------------------------------------------------------------------
\* Geometry: the science case and science mode switches of main()
\* ------------------------------------------------------------------------
CaseValid(c) == c \in {3, 4}

\* twelve tied-array beams whatever the science case
CaseNtabsTwelve(c) == 12

\* main.c:300, 313
CaseNtabs(c) == IF c = 3 THEN 9 ELSE 12

CaseSequenceLength(c) == 25

CaseNtimes(c) == IF c = 3 THEN SC3_NTIMES ELSE SC4_NTIMES

PaddingTooSmall(c, p) == p < CaseNtimes(c)

ModeValid(m) == m \in {0, 1, 2, 3}

ModeCompressed(m) == m \in {0, 2}

ModeNtabs(m, n) == IF m \in {2, 3} THEN 1 ELSE n

ModeNtimes(m, n) == IF ModeCompressed(m) THEN NTIMES_LOW ELSE n

ModeNchannels(m) == IF ModeCompressed(m) THEN NCHANNELS_LOW ELSE NCHANNELS

ModeNpols(m) == IF ModeCompressed(m) THEN 1 ELSE NPOLS

\* the exits of lines 298-374 without the synthesized beam checks
StartupFailsIgnoringBeams(c, m, p, syn) ==
    \/ ~CaseValid(c)
    \/ PaddingTooSmall(c, p)
    \/ ~ModeValid(m)

\* the exits of lines 298-374, in program order
StartupFails(c, m, p, syn) ==
    \/ ~CaseValid(c)
    \/ PaddingTooSmall(c, p)
    \/ ~ModeValid(m)
    \/ (ModeCompressed(m) /\ syn)

\* ------------------------------------------------------------------------
\* Idle values of the deinterleave variables under the driver specification
\* ------------------------------------------------------------------------
DIdle ==
    /\ d_case = 0 /\ d_mode = 0 /\ d_pc = "idle"
    /\ d_tab = 0 /\ d_channel_offset = 0 /\ d_sequence_number = 0
    /\ d_tn = 0 /\ d_cn = 0 /\ d_pn = 0
    /\ d_packet = 0 /\ d_store = << >> /\ d_steps = 0

\* Idle values of the pack_sc34 variables under the other specifications
PIdle ==
    /\ p_grid = "none" /\ p_pc = "idle" /\ p_dc = 0 /\ p_dt = 0
    /\ p_stat = << >> /\ p_written = {} /\ p_byte = << >> /\ p_reads = {}
    /\ p_steps = 0

\* Idle values of the synthesis copy variables under the other specifications
SynIdle ==
    /\ syn_case = 0 /\ syn_mode = 0 /\ syn_entries = << >> /\ syn_pc = "idle"
    /\ syn_band = 0 /\ syn_tn = 0 /\ syn_pn = 0
    /\ syn_count = 0 /\ syn_copy = << >> /\ syn_steps = 0

\* ------------------------------------------------------------------------
\* The driver
\* ------------------------------------------------------------------------
Init ==
    /\ science_case \in ScienceCases
    /\ science_mode \in ScienceModes
    /\ padded_size \in PaddedSizes
    /\ table_name \in BOOLEAN
    /\ \/ /\ table_name
          /\ synthesized_beam_count \in 1..MaxSynBeams
          /\ synthesized_beam_selected \in [0..(synthesized_beam_count - 1) -> BOOLEAN]
          /\ synthesized_beam_table \in Tables(synthesized_beam_count)
       \/ /\ ~table_name
          /\ synthesized_beam_count = 0
          /\ synthesized_beam_selected = << >>
          /\ synthesized_beam_table = << >>
    /\ make_synthesized_beams = FALSE
    /\ ntabs = 0 /\ ntimes = 0 /\ nchannels = 0 /\ npols = 0
    /\ sequence_length = 0
    /\ transposed = "null" /\ synthesized = "null"
    /\ quit = FALSE /\ page = FALSE /\ page_count = 0 /\ tab = 0 /\ sb = 0
    /\ pc = "configure"
    /\ fits = "uninit"
    /\ rows = << >>
    /\ handler = "default"
    /\ remaining \in 0..MaxPages
    /\ eod = FALSE
    /\ acquired = 0
    /\ held = FALSE
    /\ exit_status = "running" /\ exit_reason = "none"
    /\ DIdle
    /\ PIdle
    /\ SynIdle

Running == exit_status = "running"

\* exit(EXIT_FAILURE): no clean-up of the file writer
ExitFailure(reason) ==
    /\ exit_status' = "failure"
    /\ exit_reason' = reason
    /\ pc' = "exited"

\* main.c:288-374: synthesized beam options, science case switch, science
\* mode switch.  On a failed check the process exits and its locals with it.
Configure ==
    /\ Running /\ pc = "configure"
    /\ make_synthesized_beams' = table_name
    /\ IF StartupFails(science_case, science_mode, padded_size, table_name)
       THEN /\ ExitFailure("configuration")
            /\ UNCHANGED <<ntabs, ntimes, nchannels, npols, sequence_length>>
       ELSE /\ ntabs' = ModeNtabs(science_mode, CaseNtabs(science_case))
            /\ sequence_length' = CaseSequenceLength(science_case)
            /\ ntimes' = ModeNtimes(science_mode, CaseNtimes(science_case))
            /\ nchannels' = ModeNchannels(science_mode)
            /\ npols' = ModeNpols(science_mode)
            /\ pc' = "fits_init"
            /\ UNCHANGED exitvars
    /\ UNCHANGED <<cfgvars, bufvars, loopvars, ringvars, fits, rows, handler, dvars, pvars, synvars>>

\* main.c:381-383: dadafits_fits_init
FitsInit ==
    /\ Running /\ pc = "fits_init"
    /\ fits' = "open"
    /\ pc' = "allocate"
    /\ UNCHANGED <<cfgvars, geovars, bufvars, loopvars, ringvars, exitvars,
                   rows, handler, dvars, pvars, synvars>>

NeedsTransposed(m) == m = 1 \/ m = 3

\* main.c:385-392: the malloc of the transposed buffer; it may return NULL
Allocate ==
    /\ Running /\ pc = "allocate"
    /\ \/ /\ transposed' = IF NeedsTransposed(science_mode) THEN "allocated" ELSE "null"
          /\ pc' = "allocate_synthesized"
          /\ UNCHANGED exitvars
       \/ /\ NeedsTransposed(science_mode)
          /\ ExitFailure("allocation")
          /\ UNCHANGED transposed
    /\ UNCHANGED <<cfgvars, geovars, synthesized, loopvars, ringvars, fits, rows,
                   handler, dvars, pvars, synvars>>

\* main.c:394-401: the malloc of the synthesized buffer; it may return NULL
AllocateSynthesized ==
    /\ Running /\ pc = "allocate_synthesized"
    /\ \/ /\ synthesized' = IF make_synthesized_beams THEN "allocated" ELSE "null"
          /\ pc' = "signal"
          /\ UNCHANGED exitvars
       \/ /\ make_synthesized_beams
          /\ ExitFailure("allocation")
          /\ UNCHANGED synthesized
    /\ UNCHANGED <<cfgvars, geovars, transposed, loopvars, ringvars, fits, rows,
                   handler, dvars, pvars, synvars>>

\* SIGTERM left at its default disposition
SigtermDefault == "default"

\* main.c:407: the handler registered for SIGTERM
SigtermHandler == "fits_error_and_exit"

\* main.c:403-407
InstallHandler ==
    /\ Running /\ pc = "signal"
    /\ quit' = FALSE /\ page' = FALSE
    /\ handler' = SigtermHandler
    /\ pc' = "loop"
    /\ UNCHANGED <<cfgvars, geovars, bufvars, page_count, tab, sb, ringvars,
                   exitvars, fits, rows, dvars, pvars, synvars>>

\* main.c:418-453: where the science mode switch sends an acquired page
Dispatch(m) ==
    IF m = 0 \/ m = 2 THEN "compress"
    ELSE IF m = 1 \/ m = 3 THEN "deinterleave"
    ELSE "illegal_mode"

\* main.c:409-417: loop condition, ipcbuf_get_next_read, NULL page.
\* The ring buffer hands out the next page and raises end-of-data with the
\* last one; it may also return no page at all.
LoopTop ==
    /\ Running /\ pc = "loop"
    /\ IF quit \/ eod
       THEN /\ pc' = "finish"
            /\ UNCHANGED <<loopvars, ringvars>>
       ELSE \/ /\ remaining > 0
               /\ remaining' = remaining - 1
               /\ eod' = (remaining' = 0)
               /\ acquired' = acquired + 1
               /\ held' = TRUE
               /\ page' = TRUE
               /\ tab' = 0 /\ sb' = 0
               /\ pc' = Dispatch(science_mode)
               /\ UNCHANGED <<quit, page_count>>
            \/ /\ page' = FALSE
               /\ quit' = TRUE
               /\ pc' = "loop"
               /\ UNCHANGED <<page_count, tab, sb, ringvars>>
    /\ UNCHANGED <<cfgvars, geovars, bufvars, exitvars, fits, rows, handler, dvars, pvars, synvars>>

\* a row id that is the page counter itself
RowIdZeroBased(count) == count

\* main.c:442, 501, 516: the row id handed to write_fits
RowId(count) == count + 1

\* the arguments of one write_fits call, and the page it was made for
Row(beam, nchan, npol, rowid, size) ==
    [beam |-> beam, nchannels |-> nchan, npols |-> npol, rowid |-> rowid,
     size |-> size, page |-> acquired]

\* main.c:422-447: one iteration of the loop over the beams of a compressed
\* page: downsample, pack_sc34, write_fits
CompressedRow ==
    /\ Running /\ pc = "compress"
    /\ tab < ntabs
    /\ IF science_case = 3 \/ science_case = 4
       THEN /\ rows' = Append(rows, Row(tab, NCHANNELS_LOW, 1, RowId(page_count),
                                        (NCHANNELS_LOW * NTIMES_LOW) \div 8))
            /\ tab' = tab + 1
            /\ pc' = IF tab + 1 < ntabs THEN "compress" ELSE "release"
            /\ UNCHANGED exitvars
       ELSE /\ ExitFailure("science_case")
            /\ UNCHANGED <<rows, tab>>
    /\ UNCHANGED <<cfgvars, geovars, bufvars, quit, page, page_count, sb,
                   ringvars, fits, handler, dvars, pvars, synvars>>

\* main.c:453-457, 508-510: deinterleave the page into the transposed buffer
Deinterleave ==
    /\ Running /\ pc = "deinterleave"
    /\ tab' = 0 /\ sb' = 0
    /\ pc' = IF make_synthesized_beams
             THEN (IF 0 < synthesized_beam_count THEN "synthesize" ELSE "release")
             ELSE "tabs"
    /\ UNCHANGED <<cfgvars, geovars, bufvars, quit, page, page_count, ringvars,
                   exitvars, fits, rows, handler, dvars, pvars, synvars>>

\* main.c:473: the validity check of a table entry
IllegalSubband(t, n) == t = SUBBAND_UNSET \/ t > n

\* main.c:470-476: the first subband whose entry fails the check, NSUBBANDS
\* when none does
FirstIllegalBand(entries, n) ==
    IF \E b \in 0..(NSUBBANDS - 1) : IllegalSubband(entries[b], n)
    THEN CHOOSE b \in 0..(NSUBBANDS - 1) :
            /\ IllegalSubband(entries[b], n)
            /\ \A c \in 0..(b - 1) : ~IllegalSubband(entries[c], n)
    ELSE NSUBBANDS

\* main.c:387, 486-489: the memcpy source of beam t lies inside the
\* transposed buffer of n beams
SourceInside(t, n) == 0 <= t /\ t < n

\* main.c:463-507: one iteration of the loop over the synthesized beams.
\* A memcpy from outside the transposed buffer is undefined: the process
\* is killed there, or goes on with whatever bytes it read.
SynthesizeBeam ==
    /\ Running /\ pc = "synthesize"
    /\ sb < synthesized_beam_count
    /\ IF ~synthesized_beam_selected[sb]
       THEN /\ sb' = sb + 1
            /\ pc' = IF sb + 1 < synthesized_beam_count THEN "synthesize" ELSE "release"
            /\ UNCHANGED <<rows, tab, exitvars>>
       ELSE LET entries == synthesized_beam_table[sb]
                stop == FirstIllegalBand(entries, ntabs)
                copied == 0..(stop - 1)
                outside == \E b \in copied : ~SourceInside(entries[b], ntabs)
            IN  \/ /\ outside
                   /\ exit_status' = "killed"
                   /\ exit_reason' = "segv"
                   /\ pc' = "exited"
                   /\ tab' = entries[CHOOSE b \in copied :
                                 /\ ~SourceInside(entries[b], ntabs)
                                 /\ \A c \in 0..(b - 1) : SourceInside(entries[c], ntabs)]
                   /\ UNCHANGED <<rows, sb>>
                \/ /\ stop < NSUBBANDS
                   /\ tab' = entries[stop]
                   /\ ExitFailure("subband")
                   /\ UNCHANGED <<rows, sb>>
                \/ /\ stop = NSUBBANDS
                   /\ tab' = entries[NSUBBANDS - 1]
                   /\ rows' = Append(rows, Row(sb, NCHANNELS, NPOLS, RowId(page_count),
                                               NCHANNELS * NPOLS * ntimes))
                   /\ sb' = sb + 1
                   /\ pc' = IF sb + 1 < synthesized_beam_count THEN "synthesize" ELSE "release"
                   /\ UNCHANGED exitvars
    /\ UNCHANGED <<cfgvars, geovars, bufvars, quit, page, page_count,
                   ringvars, fits, handler, dvars, pvars, synvars>>

\* main.c:510-521: one iteration of the loop over the beams of a
\* deinterleaved page
TabRow ==
    /\ Running /\ pc = "tabs"
    /\ tab < ntabs
    /\ rows' = Append(rows, Row(tab, NCHANNELS, NPOLS, RowId(page_count),
                                NCHANNELS * NPOLS * ntimes))
    /\ tab' = tab + 1
    /\ pc' = IF tab + 1 < ntabs THEN "tabs" ELSE "release"
    /\ UNCHANGED <<cfgvars, geovars, bufvars, quit, page, page_count, sb,
                   ringvars, exitvars, fits, handler, dvars, pvars, synvars>>

\* main.c:531: ipcbuf_mark_cleared gives the page back to the ring buffer.
\* The pointer `page` keeps its value.  Position "release" stands for lines
\* 531-532; `held` tells whether line 531 has run.
Release ==
    /\ Running /\ pc = "release"
    /\ held
    /\ held' = FALSE
    /\ UNCHANGED <<cfgvars, geovars, bufvars, loopvars, remaining, eod, acquired,
                   pc, exitvars, fits, rows, handler, dvars, pvars, synvars>>

\* main.c:532: page_count++, and back to the loop condition
CountPage ==
    /\ Running /\ pc = "release"
    /\ ~held
    /\ page_count' = page_count + 1
    /\ pc' = "loop"
    /\ UNCHANGED <<cfgvars, geovars, bufvars, quit, page, tab, sb, ringvars,
                   exitvars, fits, rows, handler, dvars, pvars, synvars>>

\* main.c:536-546: disconnect, close_fits, return from main
Finish ==
    /\ Running /\ pc = "finish"
    /\ fits' = "closed"
    /\ exit_status' = "success"
    /\ exit_reason' = "drain"
    /\ pc' = "exited"
    /\ UNCHANGED <<cfgvars, geovars, bufvars, loopvars, ringvars, rows,
                   handler, dvars, pvars, synvars>>

\* fits_error_and_exit, the SIGTERM handler: close the file writer, exit
FitsErrorAndExit ==
    /\ fits' = "closed"
    /\ exit_status' = "failure"
    /\ exit_reason' = "sigterm"

\* SIGTERM arrives, at any point of the run: the registered handler runs,
\* or, before main.c:407, the default action ends the process
Sigterm ==
    /\ Running
    /\ IF handler = "fits_error_and_exit"
       THEN FitsErrorAndExit
       ELSE /\ exit_status' = "killed"
            /\ exit_reason' = "sigterm"
            /\ UNCHANGED fits
    /\ UNCHANGED <<cfgvars, geovars, bufvars, loopvars, ringvars, pc, rows,
                   handler, dvars, pvars, synvars>>

Next ==
    \/ Configure
    \/ FitsInit
    \/ Allocate
    \/ AllocateSynthesized
    \/ InstallHandler
    \/ LoopTop
    \/ CompressedRow
    \/ Deinterleave
    \/ SynthesizeBeam
    \/ TabRow
    \/ Release
    \/ CountPage
    \/ Finish
    \/ Sigterm

Spec == Init /\ [][Next]_vars

\* ------------------------------------------------------------------------
\* deinterleave(): the loop nest of manipulate.c:146-171, followed store by
\* store from a choice of loop positions
\* ------------------------------------------------------------------------
\* the driver at rest, for the specifications of the library functions
MainIdle ==
    /\ science_case = 0 /\ science_mode = 0 /\ padded_size = 0
    /\ table_name = FALSE
    /\ synthesized_beam_count = 0
    /\ synthesized_beam_selected = << >>
    /\ synthesized_beam_table = << >>
    /\ make_synthesized_beams = FALSE
    /\ ntabs = 0 /\ ntimes = 0 /\ nchannels = 0 /\ npols = 0
    /\ sequence_length = 0
    /\ transposed = "null" /\ synthesized = "null"
    /\ quit = FALSE /\ page = FALSE /\ page_count = 0 /\ tab = 0 /\ sb = 0
    /\ pc = "library"
    /\ fits = "uninit"
    /\ rows = << >>
    /\ handler = "default"
    /\ remaining = 0 /\ eod = FALSE /\ acquired = 0 /\ held = FALSE
    /\ exit_status = "running" /\ exit_reason = "none"

\* the arguments main.c:455 passes for a science case and mode
DNtabs == ModeNtabs(d_mode, CaseNtabs(d_case))
DNtimes == ModeNtimes(d_mode, CaseNtimes(d_case))
DSequenceLength == CaseSequenceLength(d_case)

\* an index that runs channel first, then polarization, then time
TransposedIndexChannelMajor(t, nt, sn, tn, cn, pn, co) ==
    t * (NCHANNELS * NPOLS * nt)
    + (NCHANNELS - 1 - (co + cn)) * NPOLS * nt
    + (NPOLS - 1 - pn) * nt
    + sn * PACKET_NTIMES + tn

\* manipulate.c:160-165: the index of the store
TransposedIndex(t, nt, sn, tn, cn, pn, co) ==
    (t * nt + sn * PACKET_NTIMES + tn) * NPOLS * NCHANNELS
    + (NPOLS - 1 - pn) * NCHANNELS
    + NCHANNELS - 1 - (co + cn)

\* manipulate.c:146-165: the offset of `packet` when the loops stand at
\* (t, co, sn, tn, cn, pn): one increment for every store made before
PacketOffset(t, co, sn, tn, cn, pn, sl) ==
    ((((t * (NCHANNELS \div PACKET_NCHANNELS) + co \div PACKET_NCHANNELS) * sl + sn)
        * PACKET_NTIMES + tn) * PACKET_NCHANNELS + cn) * NPOLS + pn

\* loop positions the windows open at
DStarts(n, sl) ==
    { <<t, co, sn, tn>> :
        t \in {0, n - 1},
        co \in {0, PACKET_NCHANNELS, NCHANNELS - PACKET_NCHANNELS},
        sn \in {0, sl - 1},
        tn \in {0, PACKET_NTIMES - 1} }

DInit ==
    /\ MainIdle
    /\ PIdle
    /\ SynIdle
    /\ d_case \in {3, 4}
    /\ d_mode \in {1, 3}
    /\ \E s \in DStarts(DNtabs, DSequenceLength) :
          /\ d_tab = s[1] /\ d_channel_offset = s[2]
          /\ d_sequence_number = s[3] /\ d_tn = s[4]
          /\ d_packet = PacketOffset(s[1], s[2], s[3], s[4], 0, 0, DSequenceLength)
    /\ d_cn = 0 /\ d_pn = 0
    /\ d_pc = "loop"
    /\ d_store = << >>
    /\ d_steps = 0

\* manipulate.c:150-169: one pass through the innermost loop body, and the
\* loop increments that follow it
DeinterleaveStore ==
    /\ d_pc = "loop"
    /\ d_steps < MaxStores
    /\ d_store' = [tab |-> d_tab, channel_offset |-> d_channel_offset,
                   sequence_number |-> d_sequence_number,
                   tn |-> d_tn, cn |-> d_cn, pn |-> d_pn,
                   index |-> TransposedIndex(d_tab, DNtimes, d_sequence_number,
                                             d_tn, d_cn, d_pn, d_channel_offset),
                   source |-> d_packet]
    /\ d_packet' = d_packet + 1
    /\ d_steps' = d_steps + 1
    /\ LET pn1 == d_pn + 1
           cn1 == IF pn1 < NPOLS THEN d_cn ELSE d_cn + 1
           tn1 == IF cn1 < PACKET_NCHANNELS THEN d_tn ELSE d_tn + 1
           sn1 == IF tn1 < PACKET_NTIMES THEN d_sequence_number
                  ELSE d_sequence_number + 1
           co1 == IF sn1 < DSequenceLength THEN d_channel_offset
                  ELSE d_channel_offset + PACKET_NCHANNELS
           t1  == IF co1 < NCHANNELS THEN d_tab ELSE d_tab + 1
       IN  /\ d_pn' = IF pn1 < NPOLS THEN pn1 ELSE 0
           /\ d_cn' = IF cn1 < PACKET_NCHANNELS THEN cn1 ELSE 0
           /\ d_tn' = IF tn1 < PACKET_NTIMES THEN tn1 ELSE 0
           /\ d_sequence_number' = IF sn1 < DSequenceLength THEN sn1 ELSE 0
           /\ d_channel_offset' = IF co1 < NCHANNELS THEN co1 ELSE 0
           /\ d_tab' = t1
           /\ d_pc' = IF t1 < DNtabs THEN "loop" ELSE "done"
    /\ UNCHANGED <<d_case, d_mode, mainvars, pvars, synvars>>

DNext == DeinterleaveStore

SpecDeinterleave == DInit /\ [][DNext]_vars

\* ------------------------------------------------------------------------
\* Properties of deinterleave()
\* ------------------------------------------------------------------------
\* the absolute time sample and channel of the last store
StoreTime == d_store.sequence_number * 500 + d_store.tn
StoreChannel == d_store.channel_offset + d_store.cn

\* C3: when deinterleave has run, every byte of the transposed buffer,
\* beamCount*1536*4*rawTimeSamples of them, was written exactly once from
\* the page: every store lies in the buffer, there are as many stores as
\* bytes, and the stores reach the last time sample, in case 3 and case 4.
C3_BlockFullyOverwritten ==
    /\ d_store # << >> =>
          d_store.index \in 0..(DNtabs * 1536 * 4 * DNtimes - 1)
    /\ d_pc = "done" =>
          /\ d_packet = DNtabs * 1536 * 4 * DNtimes
          /\ StoreTime = DNtimes - 1

SynNtabs == ModeNtabs(syn_mode, CaseNtabs(syn_case))
SynNtimes == ModeNtimes(syn_mode, CaseNtimes(syn_case))

\* entries of a beam's row of the table: inside the transposed buffer
\* (0, n - 1), accepted by the check but outside (n), rejected (n + 1)
SynValues(n) == {0, n - 1, n, n + 1}

\* rows of the table: one value everywhere but in one subband
SynRows(n) ==
    {[b \in 0..(NSUBBANDS - 1) |-> IF b = bb THEN v ELSE w] :
        v \in SynValues(n), w \in SynValues(n), bb \in BandSamples}

\* an offset that counts the subbands from the low end of the channels
SynthesizedOffsetForward(tn, pn, band) ==
    tn * NPOLS * NCHANNELS + pn * NCHANNELS + band * FREQS_PER_SUBBAND

\* main.c:482-485: the memcpy destination in `synthesized`
SynthesizedOffset(tn, pn, band) ==
    tn * NPOLS * NCHANNELS + pn * NCHANNELS
    + (NSUBBANDS - 1 - band) * FREQS_PER_SUBBAND

\* main.c:486-489: the memcpy source in `transposed`
TransposedOffset(t, nt, tn, pn, band) ==
    t * nt * NPOLS * NCHANNELS + tn * NPOLS * NCHANNELS
    + pn * NCHANNELS + (NSUBBANDS - 1 - band) * FREQS_PER_SUBBAND

\* positions the loops can be at: the bands before the current one passed
\* the check of main.c:473, and so did the current one once its copies
\* have begun
SynInit ==
    /\ MainIdle
    /\ DIdle
    /\ PIdle
    /\ syn_case \in {3, 4}
    /\ syn_mode \in {1, 3}
    /\ syn_entries \in SynRows(SynNtabs)
    /\ syn_band \in {0, NSUBBANDS \div 2, NSUBBANDS - 1}
    /\ syn_tn \in {0, SynNtimes - 1}
    /\ syn_pn = 0
    /\ \A b \in 0..(syn_band - 1) : ~IllegalSubband(syn_entries[b], SynNtabs)
    /\ syn_tn > 0 => ~IllegalSubband(syn_entries[syn_band], SynNtabs)
    /\ syn_count = (syn_band * SynNtimes + syn_tn) * NPOLS + syn_pn
    /\ syn_pc = "loop"
    /\ syn_copy = << >>
    /\ syn_steps = 0

\* main.c:470-494: one memcpy and the loop increments that follow it; the
\* first copy of a band comes after the check of its table entry.  A
\* memcpy that reads outside `transposed` is undefined: the process is
\* killed, or the copy is made from whatever lies there.
SynthesizeCopy ==
    /\ syn_pc = "loop"
    /\ syn_steps < MaxCopies
    /\ LET t == syn_entries[syn_band]
           checked == syn_tn = 0 /\ syn_pn = 0
           inside == SourceInside(t, SynNtabs)
           pn1 == syn_pn + 1
           tn1 == IF pn1 < NPOLS THEN syn_tn ELSE syn_tn + 1
           band1 == IF tn1 < SynNtimes THEN syn_band ELSE syn_band + 1
       IN  IF checked /\ IllegalSubband(t, SynNtabs)
           THEN /\ syn_pc' = "exit"
                /\ UNCHANGED <<syn_band, syn_tn, syn_pn, syn_count, syn_copy>>
           ELSE \/ /\ ~inside
                   /\ syn_pc' = "killed"
                   /\ UNCHANGED <<syn_band, syn_tn, syn_pn, syn_count, syn_copy>>
                \/ /\ syn_copy' = [band |-> syn_band, tn |-> syn_tn, pn |-> syn_pn,
                                    tab |-> t,
                                    dst |-> SynthesizedOffset(syn_tn, syn_pn, syn_band),
                                    src |-> TransposedOffset(t, SynNtimes, syn_tn,
                                                             syn_pn, syn_band),
                                    len |-> FREQS_PER_SUBBAND,
                                    inside |-> inside]
                   /\ syn_count' = syn_count + 1
                   /\ syn_pn' = IF pn1 < NPOLS THEN pn1 ELSE 0
                   /\ syn_tn' = IF tn1 < SynNtimes THEN tn1 ELSE 0
                   /\ syn_band' = band1
                   /\ syn_pc' = IF band1 < NSUBBANDS THEN "loop" ELSE "done"
    /\ syn_steps' = syn_steps + 1
    /\ UNCHANGED <<syn_case, syn_mode, syn_entries, mainvars, dvars, pvars>>

SynNext == SynthesizeCopy

SpecSynthesize == SynInit /\ [][SynNext]_vars

\* ------------------------------------------------------------------------
\* Properties of the beam synthesis
\* ------------------------------------------------------------------------
\* every entry of the beam's row names a beam of the transposed buffer
SynAllValid ==
    \A b \in 0..(32 - 1) :
        syn_entries[b] # SUBBAND_UNSET /\ syn_entries[b] \in 0..(SynNtabs - 1)

\* C12: when every table entry of the beam is a valid source beam, each
\* memcpy for subband b moves the 48 bytes of one (time, polarization)
\* position from the region of source beam table[B][b] in the transposed
\* buffer to the same position of the synthesized block; the copies are
\* the 32 * 4 * ntimes distinct runs of 48 bytes that make up the block, so
\* that no byte of an earlier beam or page is left; with one source beam S
\* everywhere the block is S's transposed block.
C12_SubbandsCopiedFromSource ==
    SynAllValid =>
        /\ syn_copy # << >> =>
              LET block == 1536 * 4 * SynNtimes
              IN  /\ syn_copy.tab = syn_entries[syn_copy.band]
                  /\ syn_copy.len = 48
                  /\ syn_copy.src = syn_copy.tab * block + syn_copy.dst
                  /\ syn_copy.dst =
                        48 * ((syn_copy.tn * 4 + syn_copy.pn) * 32 + (32 - 1 - syn_copy.band))
                  /\ syn_copy.dst + 48 <= block
                  /\ syn_copy.inside
        /\ syn_pc \in {"loop", "done"}
        /\ syn_pc = "done" =>
              /\ syn_count * 48 = 1536 * 4 * SynNtimes
              /\ syn_copy.band = 32 - 1
              /\ syn_copy.tn = SynNtimes - 1 /\ syn_copy.pn = 4 - 1

\* the last copy of a beam made from two different source beams
C12_Witness ==
    /\ SynAllValid
    /\ syn_pc = "done"
    /\ syn_copy.tab > 0
    /\ syn_entries[0] # syn_entries[32 - 1]

\* ------------------------------------------------------------------------
\* pack_sc34(): manipulate.c:14-108
\* ------------------------------------------------------------------------
\* the largest value of a cell: 200 raw samples of 255 (manipulate.c:34)
MaxCell == 51000

\* input grids, cell (channel c, time t) of each
\*   constant  every cell 1000
\*   stripes   cells at the maximum among small ones
\*   ramp      cells spread over the whole range
\*   edge      channel c has c cells at MaxCell - 1 and the rest at MaxCell:
\*             the mean lies just below a whole number, at the top of the
\*             range
\*   low       channel c has c cells of 1 among zeros: means below 1
\*   mean      channel c cycles v - 1, v, v + 1 around v = 1000 + c
GridIds == {"constant", "stripes", "ramp", "edge", "low", "mean"}
Downsampled(g, c, t) ==
    IF g = "constant" THEN 1000
    ELSE IF g = "stripes" THEN (IF (c + t) % 3 = 0 THEN MaxCell ELSE c % 256)
    ELSE IF g = "edge" THEN (IF t < c THEN MaxCell - 1 ELSE MaxCell)
    ELSE IF g = "low" THEN (IF t < c THEN 1 ELSE 0)
    ELSE IF g = "mean" THEN 1000 + c + (t % 3) - 1
    ELSE (c * 100 + t * 7) % (MaxCell + 1)

RECURSIVE CellSum(_, _, _, _)
\* the cells of channel c at times lo..hi-1 added up; the additions are
\* grouped by halves, which leaves an integer sum what it is
CellSum(g, c, lo, hi) ==
    IF hi - lo = 1 THEN Downsampled(g, c, lo)
    ELSE LET mid == (lo + hi) \div 2
         IN  CellSum(g, c, lo, mid) + CellSum(g, c, mid, hi)

\* manipulate.c:39-46: the sum over the NTIMES_LOW cells of channel c
ChannelSum(g, c) == CellSum(g, c, 0, NTIMES_LOW)

\* values of 32 and 64 bits are written as digits of 16 bits, the most
\* significant first
Digit == 65536

\* v * v for v < 2^16, exactly: <<v*v \div 2^16, v*v % 2^16>>
SquareDigits(v) ==
    LET a == v \div 256
        b == v % 256
        mid == 2 * a * b
        low == b * b + (mid % 256) * 256
    IN  <<a * a + mid \div 256 + low \div Digit, low % Digit>>

\* a product kept in 16 bits
SquareUShort(v) == <<0, SquareDigits(v)[2]>>

\* manipulate.c:44: (*temp1) * (*temp1), a product of unsigned int, which
\* is taken modulo 2^32
SquareUInt(v) == <<SquareDigits(v)[1] % Digit, SquareDigits(v)[2]>>

RECURSIVE SquareDigitSum(_, _, _, _, _)
\* digit k of SquareUInt of the cells of channel c at times lo..hi-1, added up
SquareDigitSum(g, c, k, lo, hi) ==
    IF hi - lo = 1 THEN SquareUInt(Downsampled(g, c, lo))[k]
    ELSE LET mid == (lo + hi) \div 2
         IN  SquareDigitSum(g, c, k, lo, mid) + SquareDigitSum(g, c, k, mid, hi)

\* the number high * 2^16 + low in digits: <<what exceeds 64 bits, d3, d2, d1, d0>>
Digits64(high, low) ==
    LET h == high + low \div Digit
    IN  <<((h \div Digit) \div Digit) \div Digit, ((h \div Digit) \div Digit) % Digit,
          (h \div Digit) % Digit, h % Digit, low % Digit>>

\* manipulate.c:40-46: sos, an unsigned long long, after the loop: the sum
\* of the squares modulo 2^64
SosULongLong(g, c) ==
    LET d == Digits64(SquareDigitSum(g, c, 1, 0, NTIMES_LOW),
                      SquareDigitSum(g, c, 2, 0, NTIMES_LOW))
    IN  <<d[2], d[3], d[4], d[5]>>

\* manipulate.c:39-46: sum, an unsigned int, after the loop: the sum of the
\* cells modulo 2^32
SumUInt(total) == <<(total \div Digit) % Digit, total % Digit>>

RECURSIVE Pow2(_)
Pow2(n) == IF n = 0 THEN 1 ELSE 2 * Pow2(n - 1)

\* n / d rounded to the nearest integer, ties to even
RoundHalfEven(n, d) ==
    LET q == n \div d
        r == n % d
    IN  IF 2 * r > d \/ (2 * r = d /\ q % 2 = 1) THEN q + 1 ELSE q

RECURSIVE Log2Floor(_)
Log2Floor(q) == IF q < 2 THEN 0 ELSE 1 + Log2Floor(q \div 2)

RECURSIVE Halvings(_, _)
\* the least n with sum * 2^n >= NTIMES_LOW, for 0 < sum
Halvings(sum, n) ==
    IF sum * Pow2(n) >= NTIMES_LOW THEN n ELSE Halvings(sum, n + 1)

\* the s for which sum/NTIMES_LOW * 2^s lies in [2^23, 2^24): the scale of
\* the 24-bit significand of the float nearest to the quotient
FloatShift(sum) ==
    IF sum >= NTIMES_LOW THEN 23 - Log2Floor(sum \div NTIMES_LOW)
    ELSE 23 + Halvings(sum, 1)

\* manipulate.c:47, 57: avg = sum / (1.0 * NTIMES_LOW) stored in a float,
\* then converted to unsigned int: the quotient rounded to 24 significant
\* bits, then truncated
Cutoff(sum) ==
    IF sum = 0 THEN 0
    ELSE LET q == sum \div NTIMES_LOW
             r == sum % NTIMES_LOW
             s == FloatShift(sum)
             significand ==
                 IF s >= 2
                 THEN (IF q = 0 THEN 0 ELSE q * Pow2(s))
                      + RoundHalfEven(r * Pow2(s - 2), NTIMES_LOW \div 4)
                 ELSE RoundHalfEven(sum * Pow2(s), NTIMES_LOW)
         IN  IF s > 23 THEN (significand \div Pow2(23)) \div Pow2(s - 23)
             ELSE significand \div Pow2(s)

\* ------------------------------------------------------------------------
\* manipulate.c:47-55: avg, std and the values stored to fits_offset and
\* fits_scale, in the arithmetic of IEEE 754 binary32 (float) and binary64
\* (double), round to nearest with ties to even.  Over cells of at most
\* MaxCell every value is zero, normal or NaN.
\* ------------------------------------------------------------------------
\* whole numbers of any size: the digits in base Limb, the least
\* significant first, without leading zeros; << >> is zero
Limb == 16384
LimbBits == 14

\* digit i of x, zero beyond its digits
BigLimb(x, i) == IF 1 <= i /\ i <= Len(x) THEN x[i] ELSE 0

\* x without leading zeros
BigTrim(x) ==
    SubSeq(x, 1, CHOOSE n \in 0..Len(x) :
                    /\ n = 0 \/ x[n] # 0
                    /\ \A i \in (n + 1)..Len(x) : x[i] = 0)

\* the digits of n < 2^31
BigOf(n) == BigTrim(<<n % Limb, (n \div Limb) % Limb, n \div (Limb * Limb)>>)

\* the number of the digits x, for a number below 2^28
BigValue(x) == BigLimb(x, 1) + Limb * BigLimb(x, 2)

\* x < y: a digit of x lies below that of y, and the digits above agree
BigLess(x, y) ==
    \E i \in 1..Len(y) :
        /\ BigLimb(x, i) < y[i]
        /\ \A j \in (i + 1)..(IF Len(x) < Len(y) THEN Len(y) ELSE Len(x)) :
              BigLimb(x, j) = BigLimb(y, j)

\* the digits of x below the i-th make a smaller number than those of y:
\* the subtraction borrows from digit i
BigBorrow(x, y, i) ==
    \E j \in 1..(i - 1) :
        /\ x[j] < BigLimb(y, j)
        /\ \A l \in (j + 1)..(i - 1) : x[l] = BigLimb(y, l)

\* x - y, for y <= x
BigSub(x, y) ==
    BigTrim([i \in 1..Len(x) |->
               (Limb + x[i] - BigLimb(y, i) - (IF BigBorrow(x, y, i) THEN 1 ELSE 0))
                   % Limb])

\* x + 1: the carry reaches digit i when every digit below is Limb - 1
BigSucc(x) ==
    BigTrim([i \in 1..(Len(x) + 1) |->
               (BigLimb(x, i) + (IF \A j \in 1..(i - 1) : x[j] = Limb - 1 THEN 1 ELSE 0))
                   % Limb])

\* x * 2^d: digit i is made of the low bits of digit i - d \div LimbBits and
\* the high bits of the one before
BigShiftLeft(x, d) ==
    BigTrim([i \in 1..(Len(x) + d \div LimbBits + 1) |->
               ((BigLimb(x, i - d \div LimbBits) * Pow2(d % LimbBits)) % Limb)
               + BigLimb(x, i - d \div LimbBits - 1) \div Pow2(LimbBits - (d % LimbBits))])

\* x \div 2^d: digit i is made of the high bits of digit i + d \div LimbBits
\* and the low bits of the next
BigShiftRight(x, d) ==
    BigTrim([i \in 1..(Len(x) - d \div LimbBits) |->
               BigLimb(x, i + d \div LimbBits) \div Pow2(d % LimbBits)
               + (BigLimb(x, i + d \div LimbBits + 1) % Pow2(d % LimbBits))
                     * Pow2(LimbBits - (d % LimbBits))])

RECURSIVE BigRemainderAt(_, _, _)
\* the remainder by k of the number made of the digits of x from the i-th on
BigRemainderAt(x, k, i) ==
    IF i > Len(x) THEN 0
    ELSE (BigRemainderAt(x, k, i + 1) * Limb + x[i]) % k

\* the quotient q and the remainder r of x by k, for k <= 2^16: the long
\* division, digit by digit
BigDivSmall(x, k) ==
    [q |-> BigTrim([i \in 1..Len(x) |->
                      (BigRemainderAt(x, k, i + 1) * Limb + x[i]) \div k]),
     r |-> BigRemainderAt(x, k, 1)]

\* the number of bits of x
BigBitLen(x) ==
    IF x = << >> THEN 0
    ELSE LimbBits * (Len(x) - 1) + Log2Floor(x[Len(x)]) + 1

\* bit i of x, bit 0 the least significant
BigBit(x, i) == (BigLimb(x, i \div LimbBits + 1) \div Pow2(i % LimbBits)) % 2

\* the n low bits of x are all zero
BigLowZero(x, n) ==
    /\ \A j \in 1..(n \div LimbBits) : BigLimb(x, j) = 0
    /\ BigLimb(x, n \div LimbBits + 1) % Pow2(n % LimbBits) = 0

\* c * c for c < 2^28
SquareOf(c) ==
    LET a == c \div Limb
        b == c % Limb
        mid == 2 * a * b + (b * b) \div Limb
        high == a * a + mid \div Limb
    IN  BigTrim(<<(b * b) % Limb, mid % Limb, high % Limb, high \div Limb>>)

\* the value of the digits ds of 16 bits, the most significant first: digit
\* i is cut from the bits of ds that it covers
BigOfDigits(ds) ==
    BigTrim([i \in 1..((16 * Len(ds)) \div LimbBits + 1) |->
               LET bit == LimbBits * (i - 1)
                   at == Len(ds) - bit \div 16
                   off == bit % 16
               IN  ((ds[at] \div Pow2(off)) % Limb)
                   + (IF off > 16 - LimbBits /\ at > 1
                      THEN (ds[at - 1] % Pow2(off - (16 - LimbBits))) * Pow2(16 - off)
                      ELSE 0)])

\* m of p + 1 bits after the rounding step carried: the next power of two
BigRenormalize(m, p, d) ==
    IF BigBitLen(m) > p THEN [m |-> BigShiftRight(m, 1), sh |-> d + 1]
    ELSE [m |-> m, sh |-> d]

\* x with its d low bits rounded away, ties to even
BigRoundAway(x, kept, p, d) ==
    BigRenormalize(IF BigBit(x, d - 1) = 1 /\ (~BigLowZero(x, d - 1) \/ kept[1] % 2 = 1)
                   THEN BigSucc(kept) ELSE kept,
                   p, d)

\* x > 0 rounded to p significant bits: m of exactly p bits and sh with
\* m * 2^sh the number of p significant bits nearest to x, ties to even
BigRound(x, p) ==
    IF BigBitLen(x) <= p
    THEN [m |-> BigShiftLeft(x, p - BigBitLen(x)), sh |-> BigBitLen(x) - p]
    ELSE BigRoundAway(x, BigShiftRight(x, BigBitLen(x) - p), p, BigBitLen(x) - p)

\* the widths of the significands
FloatBits == 24
DoubleBits == 53

\* a float is [nan, neg, m, e]: NaN, or (-1)^neg * m * 2^e with m = 0, e = 0
\* or 2^23 <= m < 2^24; a double is [neg, m, e] with m in digits, zero or
\* of 53 bits
FloatNaN == [nan |-> TRUE, neg |-> FALSE, m |-> 0, e |-> 0]
FloatZero == [nan |-> FALSE, neg |-> FALSE, m |-> 0, e |-> 0]

\* the rounded x as a double
DoubleOfRounded(neg, rounded, e) ==
    [neg |-> neg, m |-> rounded.m, e |-> e + rounded.sh]

\* the double nearest to (-1)^neg * x * 2^e
DoubleRound(neg, x, e) ==
    IF x = << >> THEN [neg |-> FALSE, m |-> << >>, e |-> 0]
    ELSE DoubleOfRounded(neg, BigRound(x, DoubleBits), e)

\* the rounded x as a float
FloatOfRounded(neg, rounded, e) ==
    [nan |-> FALSE, neg |-> neg, m |-> BigValue(rounded.m), e |-> e + rounded.sh]

\* the float nearest to (-1)^neg * x * 2^e
FloatRound(neg, x, e) ==
    IF x = << >> THEN FloatZero
    ELSE FloatOfRounded(neg, BigRound(x, FloatBits), e)

\* a float widened to a double
DoubleOfFloat(f) == [neg |-> f.neg, m |-> BigShiftLeft(BigOf(f.m), DoubleBits - FloatBits),
                     e |-> IF f.m = 0 THEN 0 ELSE f.e - (DoubleBits - FloatBits)]

\* the quotient of a significand of 53 bits is computed to 2^-QuotientShift,
\* with one more bit that tells whether anything was left: 57 bits at
\* least, enough for a rounding to 53 bits
QuotientShift == 14

\* twice the quotient, plus one if a remainder is left
StickyQuotient(twice, r) ==
    IF r = 0 THEN twice ELSE [twice EXCEPT ![1] = @ + 1]

\* manipulate.c:47-48: d / (1.0 * NTIMES_LOW), a division of doubles, for
\* d > 0
DoubleQuotient(d) ==
    CHOOSE q \in {DoubleRound(d.neg, StickyQuotient(BigShiftLeft(dv.q, 1), dv.r),
                              d.e - QuotientShift - 1) :
                    dv \in {BigDivSmall(BigShiftLeft(d.m, QuotientShift), NTIMES_LOW)}} :
        TRUE

\* manipulate.c:47: float avg = sum / (1.0 * NTIMES_LOW): the unsigned int
\* as a double, the quotient as a double, the double stored in a float
Avg(sum) ==
    IF sum = 0 THEN FloatZero
    ELSE CHOOSE avg \in {FloatRound(q.neg, q.m, q.e) :
                           q \in {DoubleQuotient(d) :
                                    d \in {DoubleRound(FALSE, BigOf(sum), 0)}}} : TRUE

\* manipulate.c:48: avg * avg, a product of floats
AvgSquared(avg) == FloatRound(FALSE, SquareOf(avg.m), 2 * avg.e)

\* the double nearest to x - y
DoubleRoundDifference(x, y, e) ==
    IF BigLess(x, y) THEN DoubleRound(TRUE, BigSub(y, x), e)
    ELSE DoubleRound(FALSE, BigSub(x, y), e)

\* a - b for doubles a >= 0 and b >= 0, as a double: the exact difference
\* of the two in units of 2^e, e the smaller exponent, rounded
DoubleDifference(a, b) ==
    LET e == IF a.e < b.e THEN a.e ELSE b.e
    IN  CHOOSE d \in {DoubleRoundDifference(x, y, e) :
                        x \in {BigShiftLeft(a.m, a.e - e)},
                        y \in {BigShiftLeft(b.m, b.e - e)}} : TRUE

\* manipulate.c:48: sos / (1.0 * NTIMES_LOW): the unsigned long long as a
\* double, the quotient a double
MeanSquare(sos) ==
    IF \A i \in 1..Len(sos) : sos[i] = 0 THEN [neg |-> FALSE, m |-> << >>, e |-> 0]
    ELSE CHOOSE q \in {DoubleQuotient(d) :
                         d \in {DoubleRound(FALSE, BigOfDigits(sos), 0)}} : TRUE

\* manipulate.c:48: sos / (1.0 * NTIMES_LOW) - avg * avg: the float product
\* widened to a double, the difference a double
Radicand(sos, avg) ==
    CHOOSE d \in {DoubleDifference(q, DoubleOfFloat(p)) :
                    q \in {MeanSquare(sos)}, p \in {AvgSquared(avg)}} : TRUE

\* the largest whole number whose square is at most v < 2^28, found seven
\* bits at a time
SqrtSmallLow(v, high) ==
    high + Cardinality({j \in 1..127 : (high + j) * (high + j) <= v})

SqrtSmall(v) ==
    SqrtSmallLow(v, 128 * Cardinality({j \in 1..127 : (128 * j) * (128 * j) <= v}))

\* the largest of c, c - 1, c - 2 whose square is at most n
SqrtBelow(n, c) ==
    c - Cardinality({j \in 0..1 : BigLess(n, SquareOf(c - j))})

\* an upper estimate of the root of top * Limb^2 that has the root r of top
\* as its high digit: the low digit is at most (top - r * r) * Limb / (2 * r)
SqrtEstimate(top, r) ==
    IF ((top - r * r) * (Limb \div 2)) \div r < Limb
    THEN r * Limb + ((top - r * r) * (Limb \div 2)) \div r
    ELSE r * Limb + Limb - 1

\* the largest whole number whose square is at most top * Limb^2, for
\* 2^25 <= top < 2^27
SqrtOf(top) ==
    CHOOSE root \in {SqrtBelow(BigShiftLeft(BigOf(top), 2 * LimbBits), c) :
                       c \in {SqrtEstimate(top, r) : r \in {SqrtSmall(top)}}} : TRUE

\* the root of n as 2 * floor + (1 if n is no square)
StickyRoot(top, r) ==
    BigOf(2 * r + (IF SquareOf(r) = BigShiftLeft(BigOf(top), 2 * LimbBits) THEN 0 ELSE 1))

\* the root of m * 2^e taken on top * Limb^2 = m * 2^t, for e - t even
SqrtfAt(top, e, t) ==
    CHOOSE f \in {FloatRound(FALSE, StickyRoot(top, r), (e - t) \div 2 - 1) :
                    r \in {SqrtOf(top)}} : TRUE

\* sqrtf: the float nearest to the root; NaN below zero
Sqrtf(f) ==
    IF f.nan \/ (f.neg /\ f.m # 0) THEN FloatNaN
    ELSE IF f.m = 0 THEN FloatZero
    ELSE IF f.e % 2 = 0 THEN SqrtfAt(f.m * 4, f.e, 2 * LimbBits + 2)
    ELSE SqrtfAt(f.m * 8, f.e, 2 * LimbBits + 3)

\* manipulate.c:48: float std = sqrtf(...): the double argument is
\* converted to a float
Std(sos, avg) ==
    CHOOSE std \in {Sqrtf(f) : f \in {FloatRound(r.neg, r.m, r.e) :
                                        r \in {Radicand(sos, avg)}}} : TRUE

\* the float nearest to x - y
FloatRoundDifference(x, y, e) ==
    IF BigLess(x, y) THEN FloatRound(TRUE, BigSub(y, x), e)
    ELSE FloatRound(FALSE, BigSub(x, y), e)

\* a - b for floats a > 0 and b > 0, as a float
FloatDifference(a, b) ==
    LET e == IF a.e < b.e THEN a.e ELSE b.e
    IN  CHOOSE d \in {FloatRoundDifference(x, y, e) :
                        x \in {BigShiftLeft(BigOf(a.m), a.e - e)},
                        y \in {BigShiftLeft(BigOf(b.m), b.e - e)}} : TRUE

\* manipulate.c:54: fits_offset[...] = avg - std
FitsOffset(avg, std) ==
    IF std.nan THEN FloatNaN
    ELSE IF std.m = 0 THEN avg
    ELSE IF avg.m = 0 THEN [std EXCEPT !.neg = TRUE]
    ELSE FloatDifference(avg, std)

\* manipulate.c:55: fits_scale[...] = 2.0 * std
FitsScale(std) ==
    IF std.nan \/ std.m = 0 THEN std ELSE [std EXCEPT !.e = std.e + 1]

\* manipulate.c:61: *temp1 > cutoff ? 1 : 0
QuantizedAt(v, cutoff) == IF v > cutoff THEN 1 ELSE 0

\* manipulate.c:59-63: cell (c, t) after the second pass
Quantized(g, c, t) ==
    QuantizedAt(Downsampled(g, c, t), Cutoff(ChannelSum(g, c)))

\* manipulate.c:54-55: the index into fits_offset / fits_scale
StatIndex(dc) == NCHANNELS_LOW - dc

\* manipulate.c:72: the byte of `packed` written
PackedIndex(dt, dc) == (dt * NCHANNELS_LOW + dc) \div 8

\* manipulate.c:75-92: the index into `downsampled` read for bit k
PackReadIndex(dt, dc, k) ==
    (NCHANNELS_LOW - 1 - dc) * NTIMES_LOW + dt + k * NTIMES_LOW

\* main.c:53: the index lies in `downsampled`
InGrid(i) == 0 <= i /\ i < NCHANNELS_LOW * NTIMES_LOW

PInit ==
    /\ MainIdle
    /\ DIdle
    /\ SynIdle
    /\ p_grid \in GridIds
    /\ \/ p_pc = "stats" /\ p_dc = 0 /\ p_dt = 0
       \/ p_pc = "pack" /\ p_dc = 0 /\ p_dt = NTIMES_LOW - 1
    /\ p_written = {}
    /\ p_stat = << >>
    /\ p_byte = << >>
    /\ p_reads = {}
    /\ p_steps = 0

\* manipulate.c:23-64: first and second pass over channel dc: the sums,
\* avg and std, the values stored to fits_offset and fits_scale and their
\* index, the cutoff and the quantized cells
PackStats ==
    /\ p_pc = "stats"
    /\ \E sum \in {ChannelSum(p_grid, p_dc)} :
         \E sos \in {SosULongLong(p_grid, p_dc)} :
           \E cutoff \in {Cutoff(sum)} :
             \E avg \in {Avg(sum)} :
               \E std \in {Std(sos, avg)} :
                 p_stat' = [dc |-> p_dc, sum |-> sum, cutoff |-> cutoff,
                            sum32 |-> SumUInt(sum),
                            sos |-> sos,
                            avg |-> avg,
                            std |-> std,
                            index |-> StatIndex(p_dc),
                            fits_offset |-> FitsOffset(avg, std),
                            fits_scale |-> FitsScale(std),
                            bits |-> [t \in 0..(NTIMES_LOW - 1) |->
                                        QuantizedAt(Downsampled(p_grid, p_dc, t), cutoff)]]
    /\ p_written' = p_written \cup {StatIndex(p_dc)}
    /\ p_dc' = IF p_dc + 1 < NCHANNELS_LOW THEN p_dc + 1 ELSE 0
    /\ p_pc' = IF p_dc + 1 < NCHANNELS_LOW THEN "stats" ELSE "pack"
    /\ UNCHANGED <<p_grid, p_dt, p_byte, p_reads, p_steps, mainvars, dvars, synvars>>

\* manipulate.c:69-94: one byte of the third pass.  A read outside
\* `downsampled` is undefined and yields any value.
PackByte ==
    /\ p_pc = "pack"
    /\ p_steps < MaxPackBytes
    /\ LET reads == [k \in 0..7 |-> PackReadIndex(p_dt, p_dc, k)]
           outside == {k \in 0..7 : ~InGrid(reads[k])}
       IN  \E junk \in [outside -> {0, 1}] :
             LET bits == [k \in 0..7 |->
                            IF k \in outside THEN junk[k]
                            ELSE Quantized(p_grid, reads[k] \div NTIMES_LOW,
                                           reads[k] % NTIMES_LOW)]
             IN  p_byte' = [dt |-> p_dt, dc |-> p_dc,
                            index |-> PackedIndex(p_dt, p_dc),
                            reads |-> reads, bits |-> bits,
                            value |-> bits[0] + 2 * bits[1] + 4 * bits[2]
                                      + 8 * bits[3] + 16 * bits[4] + 32 * bits[5]
                                      + 64 * bits[6] + 128 * bits[7]]
    /\ p_reads' = p_reads \cup {PackReadIndex(p_dt, p_dc, k) : k \in 0..7}
    /\ p_steps' = p_steps + 1
    /\ LET dc1 == p_dc + 8
           dt1 == IF dc1 < NCHANNELS_LOW THEN p_dt ELSE p_dt + 1
       IN  /\ p_dc' = IF dc1 < NCHANNELS_LOW THEN dc1 ELSE 0
           /\ p_dt' = dt1
           /\ p_pc' = IF dt1 < NTIMES_LOW THEN "pack" ELSE "done"
    /\ UNCHANGED <<p_grid, p_stat, p_written, mainvars, dvars, synvars>>

PNext ==
    \/ PackStats
    \/ PackByte

SpecPack == PInit /\ [][PNext]_vars

\* ------------------------------------------------------------------------
\* Properties of pack_sc34()
\* ------------------------------------------------------------------------
\* bit b of a byte value
BitOf(v, b) == (v \div Pow2(b)) % 2

\* C9: bit (j mod 8) of packed byte (dt*384 + j)/8 is the quantized bit of
\* input channel 384-1-j at time dt, for every output channel j.
C9_PackedBitLayout ==
    p_byte # << >> =>
        \A k \in 0..7 :
            LET j == p_byte.dc + k
            IN  /\ p_byte.index = (p_byte.dt * 384 + j) \div 8
                /\ BitOf(p_byte.value, j % 8) = Quantized(p_grid, 384 - 1 - j, p_byte.dt)

\* C10: every index used for Offset and Scale lies in 0..383, channel dc
\* goes to the reversed index, and the 384 entries are each written by the
\* time the first pass ends.
C10_StatIndexInRange ==
    /\ p_stat # << >> =>
          /\ p_stat.index \in 0..(384 - 1)
          /\ p_stat.index = 384 - 1 - p_stat.dc
    /\ (p_stat # << >> /\ p_pc \in {"pack", "done"}) => p_written = 0..(384 - 1)

\* C14: the third pass reads only indices in [0, 384*500) of the grid, and
\* reads each cell (channel, time) for exactly one output bit: no index is
\* read twice, and when the last time sample has been packed each of the
\* 384 channels was read at it.
C14_PackReadsInsideGrid ==
    /\ p_byte # << >> =>
          \A k \in 0..7 : p_byte.reads[k] \in 0..(384 * 500 - 1)
    /\ Cardinality(p_reads) = 8 * p_steps
    /\ p_pc = "done" =>
          {i \in p_reads : i % 500 = 500 - 1} = {c * 500 + 500 - 1 : c \in 0..(384 - 1)}

RECURSIVE TrueSquareSum(_, _, _, _, _)
\* digit k of the exact squares of the cells of channel c at times
\* lo..hi-1, added up
TrueSquareSum(g, c, k, lo, hi) ==
    IF hi - lo = 1 THEN SquareDigits(Downsampled(g, c, lo))[k]
    ELSE LET mid == (lo + hi) \div 2
         IN  TrueSquareSum(g, c, k, lo, mid) + TrueSquareSum(g, c, k, mid, hi)

\* C13: for cells of at most 51000, the sum of the 500 cells of a channel
\* does not exceed 2^32-1 (the 32-bit accumulator holds the exact sum), the
\* 32-bit product of a cell with itself is the exact square, and the sum
\* of the 500 squares does not exceed 2^64-1 (the 64-bit accumulator holds
\* the exact sum of squares).
C13_AccumulatorsWideEnough ==
    p_stat # << >> =>
        LET total == ChannelSum(p_grid, p_stat.dc)
            squares == Digits64(TrueSquareSum(p_grid, p_stat.dc, 1, 0, 500),
                                TrueSquareSum(p_grid, p_stat.dc, 2, 0, 500))
        IN  /\ (total \div 65536) \div 65536 = 0
            /\ p_stat.sum32 = <<total \div 65536, total % 65536>>
            /\ \A t \in 0..(500 - 1) :
                  /\ Downsampled(p_grid, p_stat.dc, t) <= 51000
                  /\ SquareUInt(Downsampled(p_grid, p_stat.dc, t))
                        = SquareDigits(Downsampled(p_grid, p_stat.dc, t))
            /\ squares[1] = 0
            /\ p_stat.sos = <<squares[2], squares[3], squares[4], squares[5]>>

\* a channel with every cell at 51000: sum 25500000, squares 2601000000
\* each, sum of squares 1300500000000
C13_Witness ==
    /\ p_stat # << >>
    /\ p_stat.sum = 500 * 51000
    /\ p_stat.sum32 = <<389, 6496>>
    /\ p_stat.sos = <<0, 302, 52183, 11520>>
    /\ SquareUInt(Downsampled(p_grid, p_stat.dc, 0)) = <<39688, 7232>>

\* the float f is the whole number v, 0 <= v < 2^24
FloatIs(f, v) ==
    /\ ~f.nan
    /\ IF v = 0 THEN f.m = 0
       ELSE ~f.neg /\ f.e <= 0 /\ f.m = v * Pow2(0 - f.e)

\* C11: after the second pass over a channel, each of its 500 cells (at
\* most 51000) holds 1 exactly when it was strictly greater than
\* floor(sum/500), sum being the channel's total; a channel whose cells
\* all equal v has every bit 0, mean v and spread 0: avg = v and std = 0,
\* so that v is stored as Offset and 0 as Scale.
C11_BitAboveFlooredMean ==
    p_stat # << >> =>
        /\ p_stat.sum = ChannelSum(p_grid, p_stat.dc)
        /\ \A t \in 0..(500 - 1) :
              /\ Downsampled(p_grid, p_stat.dc, t) <= 51000
              /\ p_stat.bits[t] \in {0, 1}
              /\ (p_stat.bits[t] = 1) <=>
                     (Downsampled(p_grid, p_stat.dc, t) > p_stat.sum \div 500)
        /\ (\A t \in 0..(500 - 1) :
                 Downsampled(p_grid, p_stat.dc, t) = Downsampled(p_grid, p_stat.dc, 0))
              => /\ \A t \in 0..(500 - 1) : p_stat.bits[t] = 0
                 /\ FloatIs(p_stat.avg, Downsampled(p_grid, p_stat.dc, 0))
                 /\ FloatIs(p_stat.std, 0)
                 /\ FloatIs(p_stat.fits_offset, Downsampled(p_grid, p_stat.dc, 0))
                 /\ FloatIs(p_stat.fits_scale, 0)

\* ------------------------------------------------------------------------
\* Properties of the driver
\* ------------------------------------------------------------------------
\* the beams of the rows written for the k-th acquired page, in order
BeamsOfPage(k) ==
    LET sel == SelectSeq(rows, LAMBDA r : r.page = k)
    IN  [i \in 1..Len(sel) |-> sel[i].beam]

RECURSIVE Ascending(_)
\* the members of a set of beam indices, in ascending order
Ascending(S) ==
    IF S = {} THEN << >>
    ELSE LET m == CHOOSE x \in S : \A y \in S : y <= x
         IN  Append(Ascending(S \ {m}), m)

\* the beams a fully processed page has rows for
BeamsPerPage ==
    IF make_synthesized_beams
    THEN Ascending({s \in 0..(synthesized_beam_count - 1) : synthesized_beam_selected[s]})
    ELSE Ascending(0..(ntabs - 1))

\* C1: every row written while the k-th acquired page is processed carries
\* row id k; the page counter is k-1 during that page; the page is
\* released, and after that the counter incremented, only when all rows of
\* the page are written; so for each beam the row ids are 1, 2, 3, ...
\* without gap or repeat.
C1_RowIdsFollowPages ==
    /\ \A i \in DOMAIN rows : rows[i].rowid = rows[i].page
    /\ held => acquired = page_count + 1
    /\ acquired \in {page_count, page_count + 1}
    /\ acquired = page_count + 1 => pc # "loop"
    /\ \A k \in 1..acquired :
          (k < acquired \/ ~held) => BeamsOfPage(k) = BeamsPerPage
    /\ \A i \in DOMAIN rows :
          rows[i].rowid = 1 + Cardinality({j \in 1..(i - 1) : rows[j].beam = rows[i].beam})

C1_Witness ==
    /\ page_count = 2 /\ held
    /\ \E i \in DOMAIN rows : rows[i].rowid = 3 /\ rows[i].beam > 0
    /\ \E i \in DOMAIN rows : rows[i].rowid = 1

\* the beam count the specification gives for a compressed mode
ClaimedBeamCount(m) == IF m = 0 THEN 12 ELSE 1

\* C2: in modes 0 and 2 every page yields exactly beamCount rows, one per
\* beam in ascending order, each of 24000 bytes, with beamCount 12 in mode
\* 0 and 1 in mode 2; science case 3, mode 0, 3 pages: 36 rows.
C2_CompressedRowsPerPage ==
    (ModeValid(science_mode) /\ ModeCompressed(science_mode)) =>
        /\ \A k \in 1..page_count :
              BeamsOfPage(k) = Ascending(0..(ClaimedBeamCount(science_mode) - 1))
        /\ \A i \in DOMAIN rows : rows[i].size = 24000
        /\ (science_case = 3 /\ science_mode = 0 /\ acquired = 3 /\ page_count = 3) =>
              Len(rows) = 36

\* C2 amended: in modes 0 and 2 every page yields one row per beam in
\* ascending order, each of 24000 bytes; the beams are 9 in science case 3
\* and 12 in science case 4 for mode 0, and 1 for mode 2; science case 3,
\* mode 0, 3 pages: 27 rows, ids 1 (x9), 2 (x9), 3 (x9).
C2_RowsPerPageByCase ==
    (ModeValid(science_mode) /\ ModeCompressed(science_mode)) =>
        /\ \A k \in 1..page_count :
              BeamsOfPage(k) =
                  Ascending(0..((IF science_mode = 2 THEN 1
                                 ELSE IF science_case = 3 THEN 9 ELSE 12) - 1))
        /\ \A i \in DOMAIN rows : rows[i].size = 24000
        /\ (science_case = 3 /\ science_mode = 0 /\ acquired = 3 /\ page_count = 3) =>
              /\ Len(rows) = 27
              /\ \A i \in 1..27 : rows[i].rowid = 1 + (i - 1) \div 9

C2_Witness ==
    /\ science_case = 3 /\ science_mode = 0 /\ acquired = 3 /\ page_count = 3
    /\ Len(rows) = 27 /\ rows[27].beam = 8 /\ rows[27].rowid = 3

\* a table entry that names a source beam of the transposed buffer
ValidSource(t) == t # SUBBAND_UNSET /\ t \in 0..(ntabs - 1)

BeamHasInvalidEntry(s) ==
    \E b \in 0..(NSUBBANDS - 1) : ~ValidSource(synthesized_beam_table[s][b])

\* C5: when a selected synthesized beam has a table entry that is UNSET or
\* no source beam index in [0, beamCount), the run fails fatally at that
\* beam and no row is written for it.
C5_InvalidEntryIsFatal ==
    make_synthesized_beams =>
        /\ \A i \in DOMAIN rows : ~BeamHasInvalidEntry(rows[i].beam)
        /\ \A s \in 0..(synthesized_beam_count - 1) :
              (pc \in {"synthesize", "release"} /\ s < sb
               /\ synthesized_beam_selected[s]) => ~BeamHasInvalidEntry(s)

\* positions of main() behind the handler registration of line 407
AfterRegistration == {"loop", "compress", "deinterleave", "synthesize", "tabs",
                      "release", "finish"}

\* C6: a process that exits after the file writer was initialized - drained,
\* terminated on request through the termination hook, or stopped by a
\* fatal table error during a page - has closed the file writer; and once
\* end-of-data has ended the loop no page is held.
C6_WriterClosedAtExit ==
    /\ (/\ ~Running
        /\ fits # "uninit"
        /\ \/ exit_reason \in {"drain", "subband"}
           \/ (exit_reason = "sigterm" /\ pc \in AfterRegistration)) => fits = "closed"
    /\ pc = "finish" => ~held

\* rows written so far for the page in progress
RowsOfCurrentPage == Cardinality({i \in DOMAIN rows : rows[i].page = acquired})

\* C7 as stated: the request is seen only at the top of a page iteration, so
\* the finalize-and-exit path never runs while a page is in progress.
C7_Cooperative ==
    (exit_reason = "sigterm" /\ fits = "closed") => ~held

\* C7 amended: there is no check in the loop; once the handler is
\* registered a request takes effect where it arrives, a page in progress
\* stays unreleased, and the file writer is closed before the failing exit.
C7_HandlerFinalizes ==
    (exit_reason = "sigterm" /\ pc \in AfterRegistration) =>
        /\ fits = "closed"
        /\ exit_status = "failure"
        /\ held => page_count = acquired - 1

C7_Witness ==
    /\ exit_reason = "sigterm" /\ fits = "closed" /\ held
    /\ pc = "compress"
    /\ 0 < RowsOfCurrentPage /\ RowsOfCurrentPage < ntabs
    /\ page_count = 1

\* the configurations the startup validation has to reject
InvalidConfiguration ==
    \/ science_case \notin {3, 4}
    \/ science_mode \notin {0, 1, 2, 3}
    \/ (science_case = 3 /\ padded_size < 12500)
    \/ (science_case = 4 /\ padded_size < 25000)
    \/ (table_name /\ science_mode \in {0, 2})

\* C8: an invalid configuration exits with failure before the file writer
\* is initialized, before a buffer is allocated and before a page is
\* acquired; every other configuration passes the validation.
C8_FailFast ==
    /\ InvalidConfiguration =>
          /\ fits = "uninit" /\ transposed = "null" /\ synthesized = "null"
          /\ acquired = 0 /\ rows = << >>
          /\ pc # "configure" =>
                (pc = "exited" /\ exit_status = "failure" /\ exit_reason = "configuration")
    /\ (~InvalidConfiguration /\ pc # "configure") => exit_reason # "configuration"

C8_Witness ==
    /\ table_name /\ science_mode = 0 /\ science_case = 4 /\ padded_size = 25000
    /\ pc = "exited" /\ exit_status = "failure" /\ fits = "uninit"

====
